---------------------------- MODULE Spec2Model ----------------------------
(***************************************************************************)
(* Parallel-reduction example scripts of the CEE690 repository.            *)
(*                                                                         *)
(* Every script is a stand-alone program.  The variable prog says which    *)
(* script a behaviour runs; the other scripts' variables stay idle.        *)
(*                                                                         *)
(* Array elements are modelled as integers, so sums are exact (floating    *)
(* point rounding is not modelled).  A mean val/count is kept as the pair  *)
(* <<val, count>>.  Python's None is the empty tuple <<>>.                 *)
(***************************************************************************)
EXTENDS Integers, Sequences, FiniteSets, TLC

(***************************************************************************)
(* Bounds of the model.                                                    *)
(***************************************************************************)
MaxIters == 4
MaxRaceThreads == 3
MaxTeam == 8
MaxRows == 3
MaxCols == 2

(***************************************************************************)
(* Program constants.                                                      *)
(***************************************************************************)
ExpectedFactor == 4

None == <<>>

(***************************************************************************)
(* Arrays.  A 2-D array is its row-major buffer; data[i, j] of an array    *)
(* with ncols columns is element i * ncols + j (0-based) of the buffer.    *)
(***************************************************************************)
Randn(k) == ((7 * k) % 11) + 1

RandnArray(nrows, ncols) == [k \in 1..(nrows * ncols) |-> Randn(k)]

At(d, ncols, i, j) == d[i * ncols + j + 1]

RECURSIVE InnerLoop(_, _, _, _, _)
InnerLoop(d, ncols, i, j, acc) ==
    IF j >= ncols THEN acc
    ELSE InnerLoop(d, ncols, i, j + 1, <<acc[1] + At(d, ncols, i, j), acc[2] + 1>>)

RECURSIVE RowLoop(_, _, _, _, _)
RowLoop(d, ncols, i, imax, acc) ==
    IF i >= imax THEN acc
    ELSE RowLoop(d, ncols, i + 1, imax, InnerLoop(d, ncols, i, 0, acc))

\* serial.py: the mean obtained by summing every element directly
calculate_mean(d, nrows, ncols) == RowLoop(d, ncols, 0, nrows, <<0, 0>>)

VARIABLES
    prog,        \* the script that runs
    data,        \* the input array (row-major buffer)
    rows, cols,  \* its shape
    \* ---- numba-openmp scripts (pyomp_*.py)
    nthreads,    \* team size set by omp_set_num_threads
    iters,       \* iterations of the race experiment
    mainPc,      \* position of the script / master thread
    pc,          \* position of each thread of the team
    counter,     \* shared counter of trigger_race_condition
    reg,         \* per thread: the shared values it has loaded
    todo,        \* per thread: loop iterations it still has to run
    attempted,   \* increments executed so far by the parallel loop
    val, count,  \* shared accumulators of calculate_mean_pyomp
    local_val, local_count,
    merged,      \* per thread: times it has executed the critical merge
    result,      \* value returned to the script
    expected, lost, \* values printed by pyomp_race_condition.py
    \* ---- threads.py
    n_threads,   \* number of worker threads per iteration
    chunk,       \* rows per worker
    results,     \* the shared results list, one slot per worker index
    threads,     \* the list of every Thread object created so far
    writer,      \* per slot: position in threads of the last thread to write it
    iter_k, spawn_i, join_j,  \* loop variables k, i and the join loop's position
    thrPc,       \* position of the parent thread
    means,       \* the quotient added to result by each iteration's combine
    \* ---- mpi4py scripts
    comm_size,   \* comm.Get_size()
    junk,        \* what an np.empty buffer happens to hold
    proc,        \* per rank: its position pc and its Python variables
    down,        \* per rank: messages in flight from the root to it
    up,          \* per rank: messages in flight from it to the root
    \* ---- NetCDF utility (refactor/spatialstats.py, refactor/example.py)
    argv,        \* the options passed explicitly on the command line
    json_doc,    \* what the JSON config file holds
    shape,       \* shape (time, lat, lon) of the 3-D variable of the input file
    config,      \* the configuration dictionary
    ncPc,        \* position of main
    analyzer,    \* the loaded data and the computed series
    plot_file,   \* the plot written to disk
    out_file,    \* the NetCDF file written to disk
    stdout,      \* the messages printed
    exit_code,   \* the exit status of the process
    steps        \* the steps main has run, in order

commonVars == <<prog, data, rows, cols>>

ompVars == <<nthreads, iters, mainPc, pc, counter, reg, todo, attempted, val,
             count, local_val, local_count, merged, result, expected, lost>>

thrVars == <<n_threads, chunk, results, threads, writer, iter_k, spawn_i, join_j,
             thrPc, means>>

mpiVars == <<comm_size, junk, proc, down, up>>

ncVars == <<argv, json_doc, shape, config, ncPc, analyzer, plot_file, out_file,
            stdout, exit_code, steps>>

vars == <<commonVars, ompVars, thrVars, mpiVars, ncVars>>

Team == 0..(nthreads - 1)

(***************************************************************************)
(* OpenMP worksharing: the static schedule of "for".  n iterations are     *)
(* cut into size contiguous blocks, the first n % size one longer.         *)
(***************************************************************************)
StaticLo(n, size, rank) ==
    IF rank < n % size THEN rank * ((n \div size) + 1)
    ELSE (n % size) * ((n \div size) + 1) + (rank - (n % size)) * (n \div size)

StaticHi(n, size, rank) ==
    StaticLo(n, size, rank) + (n \div size) + (IF rank < n % size THEN 1 ELSE 0)

(***************************************************************************)
(* pyomp_race_condition.py                                                 *)
(***************************************************************************)
OmpIdle ==
    /\ nthreads = 0 /\ iters = 0 /\ mainPc = "idle" /\ pc = <<>>
    /\ counter = 0 /\ reg = <<>> /\ todo = <<>> /\ attempted = 0
    /\ val = 0 /\ count = 0 /\ local_val = <<>> /\ local_count = <<>>
    /\ merged = <<>> /\ result = None /\ expected = 0 /\ lost = 0

NoArray == data = <<>> /\ rows = 0 /\ cols = 0

ThrIdle ==
    /\ n_threads = 0 /\ chunk = 0 /\ results = <<>> /\ threads = <<>>
    /\ writer = <<>> /\ iter_k = 0 /\ spawn_i = 0 /\ join_j = 0
    /\ thrPc = "idle" /\ means = <<>>

MpiIdle == comm_size = 0 /\ junk = 0 /\ proc = <<>> /\ down = <<>> /\ up = <<>>

NcIdle ==
    /\ argv = <<>> /\ json_doc = <<>> /\ shape = <<>> /\ config = <<>>
    /\ ncPc = "idle" /\ analyzer = <<>> /\ plot_file = <<>> /\ out_file = <<>>
    /\ stdout = <<>> /\ exit_code = <<>> /\ steps = <<>>

InitRace ==
    /\ prog = "race"
    /\ NoArray
    /\ nthreads \in 1..MaxRaceThreads
    /\ iters \in 1..MaxIters
    /\ mainPc = "start"
    /\ pc = [t \in Team |-> "idle"]
    /\ counter = 0
    /\ reg = [t \in Team |-> <<0, 0>>]
    /\ todo = [t \in Team |-> 0]
    /\ attempted = 0
    /\ val = 0 /\ count = 0
    /\ local_val = [t \in Team |-> 0]
    /\ local_count = [t \in Team |-> 0]
    /\ merged = [t \in Team |-> 0]
    /\ result = None
    /\ expected = 0 /\ lost = 0
    /\ ThrIdle
    /\ MpiIdle
    /\ NcIdle

Expected(n) == n * ExpectedFactor

\* lines 18-20 and the entry of trigger_race_condition (lines 7-11)
RaceFork ==
    /\ prog = "race" /\ mainPc = "start"
    /\ expected' = Expected(iters)
    /\ counter' = 0
    /\ todo' = [t \in Team |->
                  StaticHi(iters, nthreads, t) - StaticLo(iters, nthreads, t)]
    /\ pc' = [t \in Team |-> IF todo'[t] > 0 THEN "load" ELSE "end"]
    /\ mainPc' = "region"
    /\ UNCHANGED <<commonVars, nthreads, iters, reg, attempted, val, count,
                   local_val, local_count, merged, result, lost, thrVars, mpiVars, ncVars>>

\* "counter += 1" is an unsynchronised read-modify-write of shared memory: a
\* data race.  The compiled loop may reload the counter for every iteration
\* or keep it in a register over m consecutive iterations; both are modelled:
\* a thread reads the counter, and later writes back what it read plus m.
RaceLoad(t) ==
    /\ prog = "race" /\ pc[t] = "load"
    /\ \E m \in 1..todo[t] : reg' = [reg EXCEPT ![t] = <<counter, m>>]
    /\ pc' = [pc EXCEPT ![t] = "store"]
    /\ UNCHANGED <<commonVars, nthreads, iters, mainPc, counter, todo, attempted,
                   val, count, local_val, local_count, merged, result,
                   expected, lost, thrVars, mpiVars, ncVars>>

\* the value written back after m increments of the value read
Incremented(c, m) == c + m

\* counter += 1, second half: write back
RaceStore(t) ==
    /\ prog = "race" /\ pc[t] = "store"
    /\ counter' = Incremented(reg[t][1], reg[t][2])
    /\ attempted' = attempted + reg[t][2]
    /\ todo' = [todo EXCEPT ![t] = @ - reg[t][2]]
    /\ reg' = [reg EXCEPT ![t] = <<0, 0>>]
    /\ pc' = [pc EXCEPT ![t] = IF todo'[t] > 0 THEN "load" ELSE "end"]
    /\ UNCHANGED <<commonVars, nthreads, iters, mainPc, val, count,
                   local_val, local_count, merged, result, expected, lost, thrVars, mpiVars, ncVars>>

\* end of the parallel region and "return counter" (line 15, line 23)
RaceReturn ==
    /\ prog = "race" /\ mainPc = "region"
    /\ \A t \in Team : pc[t] = "end"
    /\ result' = <<counter>>
    /\ mainPc' = "returned"
    /\ UNCHANGED <<commonVars, nthreads, iters, pc, counter, reg, todo,
                   attempted, val, count, local_val, local_count, merged,
                   expected, lost, thrVars, mpiVars, ncVars>>

LostIncrements(e, r) == e - r

\* lines 25-27
RacePrint ==
    /\ prog = "race" /\ mainPc = "returned"
    /\ lost' = LostIncrements(expected, result[1])
    /\ mainPc' = "printed"
    /\ UNCHANGED <<commonVars, nthreads, iters, pc, counter, reg, todo,
                   attempted, val, count, local_val, local_count, merged,
                   result, expected, thrVars, mpiVars, ncVars>>

(***************************************************************************)
(* pyomp_long.py and pyomp_longest.py: calculate_mean_pyomp                *)
(***************************************************************************)
ThreadCounts == {1, 2, 4, 8, 16}

TeamSizes == {n \in ThreadCounts : n <= MaxTeam}

InitPyomp ==
    /\ prog \in {"long", "longest"}
    /\ rows \in 1..MaxRows
    /\ cols \in 1..MaxCols
    /\ data = RandnArray(rows, cols)
    /\ nthreads \in TeamSizes
    /\ iters = 0
    /\ mainPc = "start"
    /\ pc = [t \in Team |-> "idle"]
    /\ counter = 0
    /\ reg = [t \in Team |-> <<0, 0>>]
    /\ todo = [t \in Team |-> 0]
    /\ attempted = 0
    /\ val = 0 /\ count = 0
    /\ local_val = [t \in Team |-> 0]
    /\ local_count = [t \in Team |-> 0]
    /\ merged = [t \in Team |-> 0]
    /\ result = None
    /\ expected = 0 /\ lost = 0
    /\ ThrIdle
    /\ MpiIdle
    /\ NcIdle

\* a loop without the test: no thread skips any row
Skips_none(i, size, rank) == FALSE

\* pyomp_longest.py line 30: "if i%size != rank: continue"
Skips(i, size, rank) == i % size # rank

RECURSIVE LongestLoop(_, _, _, _, _, _, _)
LongestLoop(d, nrows, ncols, size, rank, i, acc) ==
    IF i >= nrows THEN acc
    ELSE IF Skips(i, size, rank)
         THEN LongestLoop(d, nrows, ncols, size, rank, i + 1, acc)
         ELSE LongestLoop(d, nrows, ncols, size, rank, i + 1,
                          InnerLoop(d, ncols, i, 0, acc))

\* pyomp_long.py lines 26-30: the thread's share of the work-shared loop
LongLoop(d, nrows, ncols, size, rank) ==
    RowLoop(d, ncols, StaticLo(nrows, size, rank), StaticHi(nrows, size, rank),
            <<0, 0>>)

LocalSums(t) ==
    IF prog = "long" THEN LongLoop(data, rows, cols, nthreads, t)
    ELSE LongestLoop(data, rows, cols, nthreads, t, 0, <<0, 0>>)

\* lines 13-18: the shared accumulators and the fork of the team
PyompFork ==
    /\ prog \in {"long", "longest"} /\ mainPc = "start"
    /\ val' = 0 /\ count' = 0
    /\ pc' = [t \in Team |-> "work"]
    /\ mainPc' = "region"
    /\ UNCHANGED <<commonVars, nthreads, iters, counter, reg, todo, attempted,
                   local_val, local_count, merged, result, expected, lost, thrVars, mpiVars, ncVars>>

\* the thread's private accumulation loop
PyompWork(t) ==
    /\ prog \in {"long", "longest"} /\ pc[t] = "work"
    /\ local_val' = [local_val EXCEPT ![t] = LocalSums(t)[1]]
    /\ local_count' = [local_count EXCEPT ![t] = LocalSums(t)[2]]
    /\ pc' = [pc EXCEPT ![t] = IF prog = "long" THEN "barrier" ELSE "wait"]
    /\ UNCHANGED <<commonVars, nthreads, iters, mainPc, counter, reg, todo,
                   attempted, val, count, merged, result, expected, lost, thrVars, mpiVars, ncVars>>

\* pyomp_long.py: the implicit barrier that ends the "for" construct
PyompBarrier ==
    /\ prog = "long" /\ mainPc = "region"
    /\ \A t \in Team : pc[t] = "barrier"
    /\ pc' = [t \in Team |-> "wait"]
    /\ UNCHANGED <<commonVars, nthreads, iters, mainPc, counter, reg, todo,
                   attempted, val, count, local_val, local_count, merged,
                   result, expected, lost, thrVars, mpiVars, ncVars>>

\* a team without mutual exclusion: any thread may enter at any time
CriticalFree_unguarded == TRUE

\* "critical": a thread may enter when no thread is inside
CriticalFree == \A u \in Team : pc[u] # "critical"

\* "=" written for "+="
Accumulate_overwrite(shared, local) == local

\* "val += local_val", "count += local_count"
Accumulate(shared, local) == shared + local

\* entry of the critical block; the thread reads the shared accumulators
PyompEnter(t) ==
    /\ prog \in {"long", "longest"} /\ pc[t] = "wait"
    /\ CriticalFree
    /\ reg' = [reg EXCEPT ![t] = <<val, count>>]
    /\ pc' = [pc EXCEPT ![t] = "critical"]
    /\ UNCHANGED <<commonVars, nthreads, iters, mainPc, counter, todo,
                   attempted, val, count, local_val, local_count, merged,
                   result, expected, lost, thrVars, mpiVars, ncVars>>

\* val += local_val; count += local_count; exit of the critical block
PyompMerge(t) ==
    /\ prog \in {"long", "longest"} /\ pc[t] = "critical"
    /\ val' = Accumulate(reg[t][1], local_val[t])
    /\ count' = Accumulate(reg[t][2], local_count[t])
    /\ merged' = [merged EXCEPT ![t] = @ + 1]
    /\ reg' = [reg EXCEPT ![t] = <<0, 0>>]
    /\ pc' = [pc EXCEPT ![t] = "end"]
    /\ UNCHANGED <<commonVars, nthreads, iters, mainPc, counter, todo,
                   attempted, local_val, local_count, result, expected, lost, thrVars, mpiVars, ncVars>>

\* end of the parallel region; "return val / count"
PyompReturn ==
    /\ prog \in {"long", "longest"} /\ mainPc = "region"
    /\ \A t \in Team : pc[t] = "end"
    /\ count # 0
    /\ result' = <<val, count>>
    /\ mainPc' = "returned"
    /\ UNCHANGED <<commonVars, nthreads, iters, pc, counter, reg, todo,
                   attempted, val, count, local_val, local_count, merged,
                   expected, lost, thrVars, mpiVars, ncVars>>

InitOmp == InitRace \/ InitPyomp

NextOmp ==
    \/ RaceFork
    \/ \E t \in Team : RaceLoad(t)
    \/ \E t \in Team : RaceStore(t)
    \/ RaceReturn
    \/ RacePrint
    \/ PyompFork
    \/ \E t \in Team : PyompWork(t)
    \/ PyompBarrier
    \/ \E t \in Team : PyompEnter(t)
    \/ \E t \in Team : PyompMerge(t)
    \/ PyompReturn

SpecOmp == InitOmp /\ [][NextOmp]_vars


(***************************************************************************)
(* Properties of the numba-openmp scripts                                  *)
(***************************************************************************)
RECURSIVE SumTeam(_, _)
SumTeam(f, n) == IF n = 0 THEN 0 ELSE f[n - 1] + SumTeam(f, n - 1)

IsPyomp == prog \in {"long", "longest"}

\* C1: K increments from W workers.  Unguarded (trigger_race_condition): the
\* loop executes all K increments, the final count never exceeds K, and with
\* W >= 2, K >= 2 two threads have increments to run on the same counter, so
\* an interleaving that loses an update exists (the state C1_LostUpdate is
\* reached).  Per-worker accumulation merged under "critical"
\* (calculate_mean_pyomp): every interleaving ends with count = K = rows*cols.
C1_CountExactUnderCritical ==
    /\ (IsPyomp /\ mainPc = "returned") => (count = rows * cols /\ result[2] = rows * cols)
    /\ (prog = "race" /\ mainPc \in {"returned", "printed"}) =>
           (attempted = iters /\ result[1] <= iters /\ result[1] >= 1)
    /\ (prog = "race" /\ mainPc = "region" /\ attempted = 0
          /\ nthreads >= 2 /\ iters >= 2) =>
           (pc[0] \in {"load", "store"} /\ pc[1] \in {"load", "store"})

\* C1 witness: an unguarded run with W >= 2, K >= 2 that lost an update
C1_LostUpdate ==
    /\ prog = "race" /\ mainPc = "returned"
    /\ nthreads >= 2 /\ iters >= 2
    /\ attempted = iters /\ result[1] < iters

\* C3: the printed "Lost Increments" (expected - result) is the number of
\* increments the parallel loop executed minus the result, so a run that
\* loses no update prints 0.
C3_LostIsLostCount ==
    (prog = "race" /\ mainPc = "printed") => lost = attempted - result[1]

\* C7: at most one thread is inside the critical merge, every thread of the
\* team executes the merge exactly once, and when the region has ended
\* val = sum of local_val and count = sum of local_count = rows*cols.
C7_CriticalMerge ==
    IsPyomp =>
      /\ Cardinality({t \in Team : pc[t] = "critical"}) <= 1
      /\ \A t \in Team : /\ merged[t] <= 1
                         /\ (pc[t] = "end") = (merged[t] = 1)
      /\ mainPc = "returned" =>
           /\ \A t \in Team : merged[t] = 1
           /\ val = SumTeam(local_val, nthreads)
           /\ count = SumTeam(local_count, nthreads)
           /\ count = rows * cols

\* C7 witness: a team of at least 4 threads, more than one of which had rows
\* to sum, has finished the region
C7_TeamMerged ==
    /\ IsPyomp /\ mainPc = "returned" /\ nthreads >= 4
    /\ Cardinality({t \in Team : local_count[t] > 0}) >= 2
    /\ \A t \in Team : merged[t] = 1

\* the rows thread t of the team does not skip
RowsOf(t) == {i \in 0..(rows - 1) : ~Skips(i, nthreads, t)}

RECURSIVE SumRows(_)
SumRows(S) ==
    IF S = {} THEN 0
    ELSE LET i == CHOOSE j \in S : TRUE
         IN RowLoop(data, cols, i, i + 1, <<0, 0>>)[1] + SumRows(S \ {i})

\* C20: in pyomp_longest.py the test "i % size != rank" leaves every row i
\* of 0..rows-1 to exactly one thread of the team, for every team size,
\* larger than the row count included: a thread that has run its loop holds
\* the sum and the element count of its own rows only, and the team's
\* counts add up to rows*cols, no row summed twice and none skipped.
C20_RowsSplitExactlyOnce ==
    prog = "longest" =>
       /\ \A i \in 0..(rows - 1) :
             Cardinality({t \in Team : ~Skips(i, nthreads, t)}) = 1
       /\ \A t \in Team :
             pc[t] \in {"wait", "critical", "end"} =>
                /\ local_count[t] = cols * Cardinality(RowsOf(t))
                /\ local_val[t] = SumRows(RowsOf(t))
       /\ (\A t \in Team : pc[t] \in {"wait", "critical", "end"}) =>
             /\ SumTeam(local_count, nthreads) = rows * cols
             /\ SumTeam(local_val, nthreads) = calculate_mean(data, rows, cols)[1]

\* C20 witness: a team larger than the row count has returned; some of its
\* threads had no row, and the rows were shared among several threads
C20_TeamLargerThanRows ==
    /\ prog = "longest" /\ mainPc = "returned"
    /\ nthreads > rows /\ rows >= 2
    /\ \E t \in Team : local_count[t] = 0
    /\ Cardinality({t \in Team : local_count[t] > 0}) = rows

(***************************************************************************)
(* threads.py                                                              *)
(***************************************************************************)
MaxNThreads == 3

Niter == 2

\* line 21: chunk = data.shape[0] // n_threads
Chunk(nrows, n) == nrows \div n

\* lines 28-29
Imin(index, c) == index * c

\* an inclusive upper bound taken for range()'s exclusive one
Imax_inclusive(index, c) == (index + 1) * c - 1

Imax(index, c) == (index + 1) * c

\* every worker writing the first slot
SlotOf_first(index) == 1

\* the slot of the results list that "results[index] = ..." assigns (1-based)
SlotOf(index) == index + 1

InitThreads ==
    /\ prog = "threads"
    /\ rows \in 1..MaxRows
    /\ cols \in 1..MaxCols
    /\ data = RandnArray(rows, cols)
    /\ n_threads \in 1..MaxNThreads
    /\ chunk = Chunk(rows, n_threads)
    /\ results = [s \in 1..n_threads |-> None]
    /\ threads = <<>>
    /\ writer = [s \in 1..n_threads |-> 0]
    /\ iter_k = 0 /\ spawn_i = 0 /\ join_j = 0
    /\ thrPc = "spawn"
    /\ means = <<>>
    /\ OmpIdle
    /\ MpiIdle
    /\ NcIdle

\* lines 27-33: create worker i of iteration k, append it, start it
ThrSpawn ==
    /\ prog = "threads" /\ thrPc = "spawn"
    /\ spawn_i < n_threads
    /\ threads' = Append(threads,
                         [k |-> iter_k, index |-> spawn_i,
                          imin |-> Imin(spawn_i, chunk),
                          imax |-> Imax(spawn_i, chunk), st |-> "started",
                          val |-> 0, count |-> 0, wrote |-> <<>>])
    /\ spawn_i' = spawn_i + 1
    /\ IF spawn_i + 1 < n_threads
       THEN thrPc' = "spawn" /\ join_j' = join_j
       ELSE thrPc' = "join" /\ join_j' = 1
    /\ UNCHANGED <<commonVars, ompVars, mpiVars, ncVars, n_threads, chunk, results, writer,
                   iter_k, means>>

\* calculate_mean_thread lines 6-11: the worker's private loop
ThrCompute(n) ==
    /\ prog = "threads" /\ threads[n].st = "started"
    /\ LET t == threads[n]
           r == RowLoop(data, cols, t.imin, t.imax, <<0, 0>>)
       IN threads' = [threads EXCEPT ![n].val = r[1], ![n].count = r[2],
                                     ![n].st = "computed"]
    /\ UNCHANGED <<commonVars, ompVars, mpiVars, ncVars, n_threads, chunk, results, writer,
                   iter_k, spawn_i, join_j, thrPc, means>>

\* calculate_mean_thread line 12: results[index] = (val, count); the worker ends
ThrWrite(n) ==
    /\ prog = "threads" /\ threads[n].st = "computed"
    /\ LET t == threads[n]
           s == SlotOf(t.index)
       IN /\ s \in DOMAIN results
          /\ results' = [results EXCEPT ![s] = <<t.val, t.count>>]
          /\ writer' = [writer EXCEPT ![s] = n]
          /\ threads' = [threads EXCEPT ![n].st = "finished",
                                        ![n].wrote = Append(@, s)]
    /\ UNCHANGED <<commonVars, ompVars, mpiVars, ncVars, n_threads, chunk, iter_k, spawn_i, join_j, thrPc, means>>

\* a join that does not wait
JoinReturns_nowait(t) == TRUE

\* t.join() returns once thread t has ended
JoinReturns(t) == t.st = "finished"

\* lines 35-36: the join loop runs over the whole threads list
ThrJoin ==
    /\ prog = "threads" /\ thrPc = "join"
    /\ join_j <= Len(threads)
    /\ JoinReturns(threads[join_j])
    /\ join_j' = join_j + 1
    /\ thrPc' = IF join_j = Len(threads) THEN "combine" ELSE "join"
    /\ UNCHANGED <<commonVars, ompVars, mpiVars, ncVars, n_threads, chunk, results, threads,
                   writer, iter_k, spawn_i, means>>

RECURSIVE SumField(_, _, _)
SumField(rs, f, s) ==
    IF s > Len(rs) THEN 0 ELSE rs[s][f] + SumField(rs, f, s + 1)

\* line 38: sum(r[0] for r in results) / sum(r[1] for r in results)
ThrCombine ==
    /\ prog = "threads" /\ thrPc = "combine"
    /\ IF \E s \in DOMAIN results : results[s] = None
       THEN \* TypeError: 'NoneType' object is not subscriptable
            thrPc' = "crashed" /\ UNCHANGED <<means, iter_k, spawn_i>>
       ELSE IF SumField(results, 2, 1) = 0
       THEN \* ZeroDivisionError
            thrPc' = "crashed" /\ UNCHANGED <<means, iter_k, spawn_i>>
       ELSE /\ means' = Append(means, <<SumField(results, 1, 1),
                                        SumField(results, 2, 1)>>)
            /\ iter_k' = iter_k + 1
            /\ spawn_i' = 0
            /\ thrPc' = IF iter_k + 1 < Niter THEN "spawn" ELSE "done"
    /\ UNCHANGED <<commonVars, ompVars, mpiVars, ncVars, n_threads, chunk, results, threads,
                   writer, join_j>>

NextThreads ==
    \/ ThrSpawn
    \/ \E n \in DOMAIN threads : ThrCompute(n)
    \/ \E n \in DOMAIN threads : ThrWrite(n)
    \/ ThrJoin
    \/ ThrCombine

SpecThreads == InitThreads /\ [][NextThreads]_vars

(***************************************************************************)
(* Properties of threads.py                                                *)
(***************************************************************************)
\* the workers of the current iteration whose row range holds row r
Covering(r) ==
    {n \in DOMAIN threads :
        /\ threads[n].k = iter_k
        /\ threads[n].imin <= r /\ r < threads[n].imax}

AllSpawned == prog = "threads" /\ thrPc \in {"join", "combine"}

ExactCover == \A r \in 0..(rows - 1) : Cardinality(Covering(r)) = 1

FullCount == \A m \in DOMAIN means : means[m][2] = rows * cols

\* C4 as stated: for any row count and any thread count the row ranges handed
\* to the workers are disjoint and cover every row exactly once, and the
\* combined element count is rows*cols.
C4_AnyCountsCover ==
    prog = "threads" => ((AllSpawned => ExactCover) /\ FullCount)

\* C4 amended: the same, for thread counts that evenly divide the row count.
C4_DividingCountsCover ==
    (prog = "threads" /\ rows % n_threads = 0) =>
        ((AllSpawned => ExactCover) /\ FullCount)

\* C4 witness: both iterations combined with several workers dividing the rows
C4_CoveredAndCombined ==
    /\ prog = "threads" /\ thrPc = "done"
    /\ n_threads >= 2 /\ rows % n_threads = 0
    /\ Len(means) = Niter

\* C5: when the parent is about to read the slots (the combine), every worker
\* started in this iteration has finished and been joined, and every slot is
\* non-None and holds the (sum, count) pair written by this iteration's worker
\* for that slot.
C5_CombineAfterJoin ==
    (prog = "threads" /\ thrPc = "combine") =>
      /\ \A n \in DOMAIN threads : threads[n].st = "finished" /\ n < join_j
      /\ \A s \in DOMAIN results :
           /\ results[s] # None
           /\ writer[s] \in DOMAIN threads
           /\ LET w == threads[writer[s]]
              IN /\ w.k = iter_k
                 /\ w.index + 1 = s
                 /\ results[s] = RowLoop(data, cols, w.imin, w.imax, <<0, 0>>)

\* C5 witness: the parent is at the combine of the second iteration
C5_AtSecondCombine ==
    /\ prog = "threads" /\ thrPc = "combine" /\ iter_k = 1
    /\ n_threads >= 2
    /\ \A s \in DOMAIN results : results[s] # None

\* C6: worker i writes results[i] and nothing else, exactly once; the input
\* array is never written; no two workers that run concurrently write the
\* same slot.
C6_WorkerWritesOwnSlot ==
    prog = "threads" =>
      /\ data = RandnArray(rows, cols)
      /\ \A n \in DOMAIN threads :
           /\ threads[n].wrote = IF threads[n].st = "finished"
                                 THEN <<threads[n].index + 1>> ELSE <<>>
      /\ \A n, m \in DOMAIN threads :
           (n # m /\ threads[n].st # "finished" /\ threads[m].st # "finished")
              => threads[n].index # threads[m].index
      /\ \A s \in DOMAIN results :
           IF writer[s] = 0 THEN results[s] = None
           ELSE /\ threads[writer[s]].index + 1 = s
                /\ results[s] = <<threads[writer[s]].val, threads[writer[s]].count>>

\* C6 witness: two workers of the second iteration are running at once while
\* the first iteration's workers have written
C6_ConcurrentWorkers ==
    /\ prog = "threads" /\ iter_k = 1
    /\ \E n, m \in DOMAIN threads :
          /\ n # m
          /\ threads[n].st = "computed" /\ threads[m].st = "computed"
    /\ \E n \in DOMAIN threads : threads[n].wrote # <<>>

(***************************************************************************)
(* mpi4py scripts.  Every collective is called with root=0.  A rank that   *)
(* sends does not wait for the receiver; a rank that receives blocks until *)
(* the message is there.  Messages between two ranks are not overtaken.    *)
(***************************************************************************)
MaxSize == 3
MaxMpiRows == 4

ChunkLen == 5

Root == 0

Ranks == 0..(comm_size - 1)

Garbage == {-7, 3}

\* np.arange(n), np.empty(n), np.zeros(n) + x
Arange(n) == [e \in 1..n |-> e - 1]

Empty(n) == [e \in 1..n |-> junk]

\* the rank left out of the send buffer
ZerosPlus_zeros(n, x) == [e \in 1..n |-> 0]

ZerosPlus(n, x) == [e \in 1..n |-> 0 + x]

RECURSIVE SumSeq(_)
SumSeq(b) == IF b = <<>> THEN 0 ELSE Head(b) + SumSeq(Tail(b))

\* a rank's Python variables before it has assigned any
Blank ==
    [pc |-> "done", data |-> None, local_data |-> None,
     local_val |-> None, local_count |-> None,
     total_val |-> None, total_count |-> None, final_mean |-> None,
     send_data |-> None, recv_data |-> None,
     sendbuf |-> None, recvbuf |-> None, result |-> None,
     log |-> <<>>]

MeanProgs == {"mean", "hybrid"}

\* mpi4py_calculate_mean.py lines 10-26, hybrid_calculate_mean.py lines 24-33;
\* the process counts are those that evenly divide the row count
InitMean ==
    /\ prog \in MeanProgs
    /\ rows \in 1..MaxMpiRows
    /\ cols \in 1..MaxCols
    /\ data = RandnArray(rows, cols)
    /\ comm_size \in {n \in 1..MaxSize : rows % n = 0}
    /\ junk \in Garbage
    /\ proc = [r \in Ranks |->
                 [Blank EXCEPT !.pc = "Scatter",
                               !.data = IF r = Root THEN data ELSE None,
                               !.local_data = Empty((rows \div comm_size) * cols)]]

\* mpi4py_scatter.py lines 9-15
InitScatter ==
    /\ prog \in {"scatter", "roundtrip"}
    /\ NoArray
    /\ comm_size \in 1..MaxSize
    /\ junk \in Garbage
    /\ proc = [r \in Ranks |->
                 [Blank EXCEPT !.pc = "Scatter",
                               !.send_data = IF r = Root THEN Arange(comm_size * ChunkLen)
                                             ELSE None,
                               !.recv_data = IF r = Root THEN None
                                             ELSE Empty(ChunkLen)]]

\* mpi4py_gather.py lines 8-11
InitGather ==
    /\ prog = "gather"
    /\ NoArray
    /\ comm_size \in 1..MaxSize
    /\ junk \in Garbage
    /\ proc = [r \in Ranks |->
                 [Blank EXCEPT !.pc = "Gather",
                               !.sendbuf = ZerosPlus(ChunkLen, r),
                               !.recvbuf = IF r = Root THEN Empty(comm_size * ChunkLen)
                                           ELSE None]]

\* mpi4py_broadcast.py lines 10-13
InitBcast ==
    /\ prog = "bcast"
    /\ NoArray
    /\ comm_size \in 1..MaxSize
    /\ junk \in Garbage
    /\ proc = [r \in Ranks |->
                 [Blank EXCEPT !.pc = "Bcast",
                               !.data = IF r = Root THEN Arange(comm_size * ChunkLen)
                                        ELSE Empty(comm_size * ChunkLen)]]

\* mpi4py_allreduce.py line 7: each rank contributes its rank ID
InitAllreduce ==
    /\ prog = "allreduce"
    /\ NoArray
    /\ comm_size \in 1..MaxSize
    /\ junk \in Garbage
    /\ proc = [r \in Ranks |->
                 [Blank EXCEPT !.pc = "allreduce", !.send_data = <<r>>]]

\* mpi4py_p2p_numpy.py lines 6-10: rank 0 sends, rank 1 receives, the other
\* ranks take neither branch
InitP2p ==
    /\ prog = "p2p"
    /\ NoArray
    /\ comm_size \in 1..MaxSize
    /\ junk \in Garbage
    /\ proc = [r \in Ranks |->
                 [Blank EXCEPT !.pc = CASE r = 0 -> "Send1"
                                        [] r = 1 -> "Recv1"
                                        [] OTHER -> "pass"]]

InitMpi ==
    /\ \/ InitMean \/ InitScatter \/ InitGather \/ InitBcast \/ InitAllreduce
       \/ InitP2p
    /\ down = [r \in Ranks |-> <<>>]
    /\ up = [r \in Ranks |-> <<>>]
    /\ OmpIdle
    /\ ThrIdle
    /\ NcIdle

\* every rank is handed the first block
ScatterChunk_first(buf, n, r) == SubSeq(buf, 1, Len(buf) \div n)

\* Scatter: block r of the n equal contiguous blocks of the send buffer
ScatterChunk(buf, n, r) ==
    SubSeq(buf, r * (Len(buf) \div n) + 1, (r + 1) * (Len(buf) \div n))

\* mpi4py takes a root's recvbuf of None for MPI.IN_PLACE: the root's own
\* block stays where it is in the send buffer and nothing is copied
InPlace(recvbuf) == recvbuf = None

\* the statement after comm.Scatter
AfterScatter ==
    CASE prog \in MeanProgs -> "local"
      [] prog = "scatter" -> "done"
      [] prog = "roundtrip" -> "handoff"

\* comm.Scatter(sendbuf, recvbuf, root=0) at rank r
MpiScatter(r) ==
    /\ proc[r].pc = "Scatter"
    /\ IF r = Root
       THEN LET sb == IF prog \in MeanProgs THEN proc[r].data ELSE proc[r].send_data
                rb == IF prog \in MeanProgs THEN proc[r].local_data
                      ELSE proc[r].recv_data
                own == IF InPlace(rb) THEN rb ELSE ScatterChunk(sb, comm_size, r)
            IN /\ down' = [q \in Ranks |->
                             IF q = Root THEN down[q]
                             ELSE Append(down[q], ScatterChunk(sb, comm_size, q))]
               /\ proc' = [proc EXCEPT ![r] =
                             IF prog \in MeanProgs
                             THEN [@ EXCEPT !.local_data = own, !.pc = AfterScatter]
                             ELSE [@ EXCEPT !.recv_data = own, !.pc = AfterScatter]]
       ELSE /\ down[r] # <<>>
            /\ down' = [down EXCEPT ![r] = Tail(@)]
            /\ proc' = [proc EXCEPT ![r] =
                          IF prog \in MeanProgs
                          THEN [@ EXCEPT !.local_data = Head(down[r]),
                                         !.pc = AfterScatter]
                          ELSE [@ EXCEPT !.recv_data = Head(down[r]),
                                         !.pc = AfterScatter]]
    /\ UNCHANGED <<commonVars, ompVars, thrVars, ncVars, comm_size, junk, up>>

\* mpi4py_calculate_mean.py lines 32-33: np.sum(local_data), local_data.size
NpSum(b) == <<SumSeq(b), Len(b)>>

\* hybrid_calculate_mean.py lines 10-21: the reduction(+) loop over the chunk
compute_local_chunk(b, ncols) == RowLoop(b, ncols, 0, Len(b) \div ncols, <<0, 0>>)

MpiLocal(r) ==
    /\ prog \in MeanProgs
    /\ proc[r].pc = "local"
    /\ LET vc == IF prog = "mean" THEN NpSum(proc[r].local_data)
                 ELSE compute_local_chunk(proc[r].local_data, cols)
       IN proc' = [proc EXCEPT ![r].local_val = <<vc[1]>>,
                               ![r].local_count = <<vc[2]>>,
                               ![r].pc = "reduce_val"]
    /\ UNCHANGED <<commonVars, ompVars, thrVars, ncVars, comm_size, junk, down, up>>

RECURSIVE SumOthers(_, _)
SumOthers(q, n) ==
    IF q >= n THEN 0
    ELSE (IF q = Root THEN 0 ELSE Head(up[q])[1]) + SumOthers(q + 1, n)

\* a reduce that leaves out the root's own contribution
ReduceSum_othersOnly(own, q, n) == SumOthers(q, n)

RECURSIVE ReduceSum(_, _, _)
\* MPI.SUM over the ranks q..n-1: the root's own value and the others' messages
ReduceSum(own, q, n) ==
    IF q >= n THEN 0
    ELSE (IF q = Root THEN own[1] ELSE Head(up[q])[1]) + ReduceSum(own, q + 1, n)

\* a root that also waits for a message from itself
AllArrived_selfToo == \A q \in Ranks : up[q] # <<>>

\* the root's side of a collective returns once every other rank has sent
AllArrived == \A q \in Ranks \ {Root} : up[q] # <<>>

\* comm.reduce(x, op=MPI.SUM, root=0): first the value, then the count
MpiReduce(r) ==
    /\ prog \in MeanProgs
    /\ proc[r].pc \in {"reduce_val", "reduce_count"}
    /\ LET isVal == proc[r].pc = "reduce_val"
           x == IF isVal THEN proc[r].local_val ELSE proc[r].local_count
           nxt == IF isVal THEN "reduce_count" ELSE "report"
       IN IF r = Root
          THEN /\ AllArrived
               /\ up' = [q \in Ranks |-> IF q = Root THEN up[q] ELSE Tail(up[q])]
               /\ proc' = [proc EXCEPT ![r] =
                             IF isVal
                             THEN [@ EXCEPT !.total_val = <<ReduceSum(x, 0, comm_size)>>,
                                            !.pc = nxt]
                             ELSE [@ EXCEPT !.total_count = <<ReduceSum(x, 0, comm_size)>>,
                                            !.pc = nxt]]
          ELSE /\ up' = [up EXCEPT ![r] = Append(@, x)]
               /\ proc' = [proc EXCEPT ![r].pc = nxt]
    /\ UNCHANGED <<commonVars, ompVars, thrVars, ncVars, comm_size, junk, down>>

\* "if rank == 0: final_mean = total_val / total_count"
MpiReport(r) ==
    /\ prog \in MeanProgs
    /\ proc[r].pc = "report"
    /\ proc' = [proc EXCEPT ![r] =
                  IF r = Root
                  THEN [@ EXCEPT !.final_mean = <<proc[r].total_val[1],
                                                  proc[r].total_count[1]>>,
                                 !.pc = "done"]
                  ELSE [@ EXCEPT !.pc = "done"]]
    /\ UNCHANGED <<commonVars, ompVars, thrVars, ncVars, comm_size, junk, down, up>>

\* the block a rank holds once Scatter has returned
HeldChunk(r) ==
    IF InPlace(proc[r].recv_data)
    THEN ScatterChunk(proc[r].send_data, comm_size, r)
    ELSE proc[r].recv_data

\* round trip: each rank offers the block it holds to Gather
RoundTripHandoff(r) ==
    /\ prog = "roundtrip"
    /\ proc[r].pc = "handoff"
    /\ proc' = [proc EXCEPT ![r].sendbuf = HeldChunk(r),
                            ![r].recvbuf = IF r = Root
                                           THEN Empty(comm_size * ChunkLen)
                                           ELSE None,
                            ![r].pc = "Gather"]
    /\ UNCHANGED <<commonVars, ompVars, thrVars, ncVars, comm_size, junk, down, up>>

RECURSIVE GatheredDown(_, _)
GatheredDown(own, q) ==
    IF q < 0 THEN <<>>
    ELSE (IF q = Root THEN own ELSE Head(up[q])) \o GatheredDown(own, q - 1)

\* the blocks laid out from the highest rank down
Gathered_reversed(own, n) == GatheredDown(own, n - 1)

RECURSIVE GatheredFrom(_, _, _)
GatheredFrom(own, q, n) ==
    IF q >= n THEN <<>>
    ELSE (IF q = Root THEN own ELSE Head(up[q])) \o GatheredFrom(own, q + 1, n)

\* Gather: row q of the root's receive buffer is rank q's send buffer
Gathered(own, n) == GatheredFrom(own, 0, n)

\* comm.Gather(sendbuf, recvbuf, root=0) at rank r
MpiGather(r) ==
    /\ prog \in {"gather", "roundtrip"}
    /\ proc[r].pc = "Gather"
    /\ IF r = Root
       THEN /\ AllArrived
            /\ up' = [q \in Ranks |-> IF q = Root THEN up[q] ELSE Tail(up[q])]
            /\ proc' = [proc EXCEPT ![r].recvbuf = Gathered(proc[r].sendbuf, comm_size),
                                    ![r].pc = "done"]
       ELSE /\ up' = [up EXCEPT ![r] = Append(@, proc[r].sendbuf)]
            /\ proc' = [proc EXCEPT ![r].pc = "done"]
    /\ UNCHANGED <<commonVars, ompVars, thrVars, ncVars, comm_size, junk, down>>

\* a receive that leaves the buffer as it was
Received_dropped(old, msg) == old

\* the receive buffer after the message has been copied into it
Received(old, msg) == msg

\* comm.Bcast(data, root=0) at rank r
MpiBcast(r) ==
    /\ prog = "bcast"
    /\ proc[r].pc = "Bcast"
    /\ IF r = Root
       THEN /\ down' = [q \in Ranks |->
                          IF q = Root THEN down[q] ELSE Append(down[q], proc[r].data)]
            /\ proc' = [proc EXCEPT ![r].pc = "done"]
       ELSE /\ down[r] # <<>>
            /\ down' = [down EXCEPT ![r] = Tail(@)]
            /\ proc' = [proc EXCEPT ![r].data = Received(@, Head(down[r])),
                                    ![r].pc = "done"]
    /\ UNCHANGED <<commonVars, ompVars, thrVars, ncVars, comm_size, junk, up>>

\* a sum that leaves out the last rank's contribution
Allreduced_short(own, n) == ReduceSum(own, 0, n - 1)

\* MPI.SUM over the contributions of all n ranks
Allreduced(own, n) == ReduceSum(own, 0, n)

\* comm.allreduce(send_data, op=MPI.SUM) at rank r, first half: the
\* contributions are combined at rank 0 and the sum is sent to every rank
MpiAllreduce(r) ==
    /\ prog = "allreduce"
    /\ proc[r].pc = "allreduce"
    /\ IF r = Root
       THEN /\ AllArrived
            /\ LET total == <<Allreduced(proc[r].send_data, comm_size)>>
               IN /\ down' = [q \in Ranks |->
                                IF q = Root THEN down[q] ELSE Append(down[q], total)]
                  /\ proc' = [proc EXCEPT ![r].result = total, ![r].pc = "done"]
            /\ up' = [q \in Ranks |-> IF q = Root THEN up[q] ELSE Tail(up[q])]
       ELSE /\ up' = [up EXCEPT ![r] = Append(@, proc[r].send_data)]
            /\ proc' = [proc EXCEPT ![r].pc = "allreduce_wait"]
            /\ down' = down
    /\ UNCHANGED <<commonVars, ompVars, thrVars, ncVars, comm_size, junk>>

\* comm.allreduce at a rank other than 0, second half: the call returns the
\* sum once it has arrived
MpiAllreduceReturn(r) ==
    /\ prog = "allreduce"
    /\ proc[r].pc = "allreduce_wait"
    /\ down[r] # <<>>
    /\ down' = [down EXCEPT ![r] = Tail(@)]
    /\ proc' = [proc EXCEPT ![r].result = Head(down[r]), ![r].pc = "done"]
    /\ UNCHANGED <<commonVars, ompVars, thrVars, ncVars, comm_size, junk, up>>

(***************************************************************************)
(* mpi4py_p2p_numpy.py.  A message is [n, tag, data]: n is the number of   *)
(* the Send that posted it.  A standard-mode Send may return as soon as    *)
(* the message is buffered or only once it has been received; both are     *)
(* modelled.  A Recv takes the oldest message of its tag.                  *)
(***************************************************************************)
P2pLen == 10

\* lines 11 and 20: numpy.arange(10, dtype=...)
P2pArray(n) == [dtype |-> IF n = 1 THEN "i" ELSE "float64", buf |-> Arange(P2pLen)]

\* lines 14 and 23: numpy.empty(10, dtype=...)
P2pEmpty(n) == [dtype |-> IF n = 1 THEN "i" ELSE "float64", buf |-> Empty(P2pLen)]

\* lines 12 and 21: the tag of the n-th Send
SendTag(n) == IF n = 1 THEN 77 ELSE 13

\* a receiver that asks for the two tags the other way round
RecvTag_swapped(n) == IF n = 1 THEN 13 ELSE 77

\* lines 15 and 24: the tag of the n-th Recv
RecvTag(n) == IF n = 1 THEN 77 ELSE 13

\* the positions in a channel of the messages that carry a tag
Tagged(ch, tag) == {e \in DOMAIN ch : ch[e].tag = tag}

Oldest(ch, tag) == CHOOSE e \in Tagged(ch, tag) : \A f \in Tagged(ch, tag) : e <= f

RemoveAt(ch, e) == SubSeq(ch, 1, e - 1) \o SubSeq(ch, e + 1, Len(ch))

\* comm.Send(data, dest=1, tag=...) at rank 0; with a single process the
\* destination rank does not exist and the call raises
P2pSend(r) ==
    /\ prog = "p2p" /\ r = 0
    /\ proc[r].pc \in {"Send1", "Send2"}
    /\ LET n == IF proc[r].pc = "Send1" THEN 1 ELSE 2
           msg == [n |-> n, tag |-> SendTag(n), data |-> P2pArray(n)]
       IN IF 1 \notin Ranks
          THEN /\ proc' = [proc EXCEPT ![r].data = P2pArray(n), ![r].pc = "crashed"]
               /\ down' = down
          ELSE /\ down' = [down EXCEPT ![1] = Append(@, msg)]
               /\ \E nxt \in {IF n = 1 THEN "Wait1" ELSE "Wait2",
                                IF n = 1 THEN "Send2" ELSE "done"} :
                     proc' = [proc EXCEPT ![r].data = P2pArray(n),
                                          ![r].log = Append(@, <<"Send", SendTag(n)>>),
                                          ![r].pc = nxt]
    /\ UNCHANGED <<commonVars, ompVars, thrVars, ncVars, comm_size, junk, up>>

\* a Send that waited for its receiver returns
P2pSendReturn(r) ==
    /\ prog = "p2p" /\ r = 0
    /\ proc[r].pc \in {"Wait1", "Wait2"}
    /\ LET n == IF proc[r].pc = "Wait1" THEN 1 ELSE 2
       IN /\ \A e \in DOMAIN down[1] : down[1][e].n # n
          /\ proc' = [proc EXCEPT ![r].pc = IF n = 1 THEN "Send2" ELSE "done"]
    /\ UNCHANGED <<commonVars, ompVars, thrVars, ncVars, comm_size, junk, down, up>>

\* comm.Recv(data, source=0, tag=...) at rank 1, and the print
P2pRecv(r) ==
    /\ prog = "p2p" /\ r = 1
    /\ proc[r].pc \in {"Recv1", "Recv2"}
    /\ LET n == IF proc[r].pc = "Recv1" THEN 1 ELSE 2
           tag == RecvTag(n)
       IN /\ Tagged(down[r], tag) # {}
          /\ LET e == Oldest(down[r], tag)
                 got == Received(P2pEmpty(n), down[r][e].data)
             IN /\ down' = [down EXCEPT ![r] = RemoveAt(@, e)]
                /\ proc' = [proc EXCEPT
                              ![r].data = got,
                              ![r].log = Append(@, <<"Recv", tag, down[r][e].n, got>>),
                              ![r].pc = IF n = 1 THEN "Recv2" ELSE "done"]
    /\ UNCHANGED <<commonVars, ompVars, thrVars, ncVars, comm_size, junk, up>>

\* a rank other than 0 and 1: both "if" statements fall through
P2pPass(r) ==
    /\ prog = "p2p"
    /\ proc[r].pc = "pass"
    /\ proc' = [proc EXCEPT ![r].pc = "done"]
    /\ UNCHANGED <<commonVars, ompVars, thrVars, ncVars, comm_size, junk, down, up>>

NextMpi ==
    \/ \E r \in Ranks : MpiScatter(r)
    \/ \E r \in Ranks : MpiLocal(r)
    \/ \E r \in Ranks : MpiReduce(r)
    \/ \E r \in Ranks : MpiReport(r)
    \/ \E r \in Ranks : RoundTripHandoff(r)
    \/ \E r \in Ranks : MpiGather(r)
    \/ \E r \in Ranks : MpiBcast(r)
    \/ \E r \in Ranks : MpiAllreduce(r)
    \/ \E r \in Ranks : MpiAllreduceReturn(r)
    \/ \E r \in Ranks : P2pSend(r)
    \/ \E r \in Ranks : P2pSendReturn(r)
    \/ \E r \in Ranks : P2pRecv(r)
    \/ \E r \in Ranks : P2pPass(r)

SpecMpi == InitMpi /\ [][NextMpi]_vars

\* the steps of rank r
MpiStep(r) ==
    /\ r \in Ranks
    /\ \/ MpiScatter(r) \/ MpiLocal(r) \/ MpiReduce(r) \/ MpiReport(r)
       \/ RoundTripHandoff(r) \/ MpiGather(r) \/ MpiBcast(r)
       \/ MpiAllreduce(r) \/ MpiAllreduceReturn(r)
       \/ P2pSend(r) \/ P2pSendReturn(r) \/ P2pRecv(r) \/ P2pPass(r)

\* every rank is a process of its own, which runs whenever it is not blocked
SpecMpiFair ==
    /\ InitMpi /\ [][NextMpi]_vars
    /\ \A r \in 0..(MaxSize - 1) : WF_vars(MpiStep(r))

(***************************************************************************)
(* Properties of the mpi4py scripts                                        *)
(***************************************************************************)
\* C2: in calculate_mean_collective and run_hybrid_mean, for every process
\* count that divides the row count, after the Scatter and the two reduces
\* the root holds total_count = rows*cols and total_val = the sum of every
\* element, and the mean it reports is the mean of serial calculate_mean.
C2_PartitionedMeanIsSerialMean ==
    (prog \in MeanProgs /\ proc[Root].pc = "done") =>
      /\ proc[Root].total_count = <<rows * cols>>
      /\ proc[Root].total_val = <<SumSeq(data)>>
      /\ proc[Root].final_mean = calculate_mean(data, rows, cols)

\* C2 witness: the root has reported with several processes, each of which
\* summed a block of more than one row
C2_RootReported ==
    /\ prog \in MeanProgs /\ proc[Root].pc = "done"
    /\ comm_size >= 2 /\ rows % comm_size = 0 /\ rows \div comm_size >= 2
    /\ cols >= 2
    /\ proc[Root].final_mean # None

PastScatter(r) == prog = "scatter" /\ proc[r].pc = "done"

RootArray == Arange(comm_size * ChunkLen)

\* C9 as stated: when Scatter returns every rank r, the root included, holds
\* in its receive buffer elements [5r, 5r+5) of the root's send array.
C9_EveryRankReceivesChunk ==
    \A r \in Ranks :
        PastScatter(r) =>
            proc[r].recv_data = SubSeq(RootArray, ChunkLen * r + 1, ChunkLen * r + ChunkLen)

\* C9 amended: every rank other than the root holds elements [5r, 5r+5) in its
\* receive buffer; the root's receive buffer stays None and its own block
\* stays in the (unchanged) send array.
C9_NonRootRanksReceiveChunk ==
    \A r \in Ranks :
        PastScatter(r) =>
            /\ r # Root =>
                 proc[r].recv_data =
                     SubSeq(RootArray, ChunkLen * r + 1, ChunkLen * r + ChunkLen)
            /\ r = Root => (proc[r].recv_data = None /\ proc[r].send_data = RootArray)

\* C9 witness: Scatter has returned on the root and on two other ranks
C9_ScatterReturned ==
    /\ prog = "scatter" /\ comm_size >= 3
    /\ \A r \in Ranks : proc[r].pc = "done"
    /\ proc[2].recv_data # Empty(ChunkLen)

\* C10: when Bcast returns the data array of every rank is identical to the
\* root's array 0..size*5-1, and the root's array is unchanged.
C10_BcastCopiesRootArray ==
    prog = "bcast" =>
      /\ proc[Root].data = RootArray
      /\ \A r \in Ranks : proc[r].pc = "done" => proc[r].data = proc[Root].data

\* C10 witness: Bcast has returned on a rank whose buffer held something else
C10_BcastReturned ==
    /\ prog = "bcast" /\ comm_size >= 2
    /\ \A r \in Ranks : proc[r].pc = "done"
    /\ Empty(comm_size * ChunkLen) # RootArray

\* C11: when Gather has returned at the root, row r of the root's recvbuf is
\* rank r's sendbuf, five entries all equal to r, for every rank r and
\* whatever the order in which the ranks reached the call; the recvbuf of
\* every other rank stays None.
C11_GatherRowsByRank ==
    prog = "gather" =>
      /\ \A r \in Ranks \ {Root} : proc[r].recvbuf = None
      /\ proc[Root].pc = "done" =>
           /\ Len(proc[Root].recvbuf) = comm_size * ChunkLen
           /\ \A r \in Ranks : \A e \in 1..ChunkLen :
                 proc[Root].recvbuf[r * ChunkLen + e] = r
           /\ \A r \in Ranks :
                 SubSeq(proc[Root].recvbuf, r * ChunkLen + 1, (r + 1) * ChunkLen)
                     = proc[r].sendbuf

\* C11 witness: Gather has returned on the root and on two other ranks, and
\* the root's buffer no longer holds what np.empty left in it
C11_GatherReturned ==
    /\ prog = "gather" /\ comm_size >= 3
    /\ \A r \in Ranks : proc[r].pc = "done"
    /\ proc[Root].recvbuf # Empty(comm_size * ChunkLen)

\* C12: after comm.allreduce with MPI.SUM every rank holds the same result,
\* the sum 0 + 1 + ... + (size-1) of all ranks' contributions, whatever the
\* order in which the ranks arrived at the call.
C12_AllreduceSameSum ==
    prog = "allreduce" =>
      /\ \A r \in Ranks :
           proc[r].pc = "done" =>
              proc[r].result = <<(comm_size * (comm_size - 1)) \div 2>>
      /\ \A r, q \in Ranks :
           (proc[r].pc = "done" /\ proc[q].pc = "done") =>
              proc[r].result = proc[q].result

\* C12 witness: allreduce has returned on three ranks
C12_AllreduceReturned ==
    /\ prog = "allreduce" /\ comm_size >= 3
    /\ \A r \in Ranks : proc[r].pc = "done" /\ proc[r].result # None

(***************************************************************************)
(* NetCDF utility: refactor/example.py and refactor/spatialstats.py.       *)
(*                                                                         *)
(* A NumPy array is a record of its shape and its row-major buffer.  A     *)
(* quotient a/b is kept as the pair <<a, b>>; <<0, 0>> is nan.  A 1-D      *)
(* series held by a Python variable is wrapped as <<series>>, so that an   *)
(* empty series differs from None.  An optional string is None or <<s>>.   *)
(***************************************************************************)
MaxT == 2
MaxY == 2
MaxX == 2
MaxNeg == 1

NcProgs == {"spatialstats", "example"}

Keys == {"INPUT_FILE", "OUTPUT_FILE", "PLOT_FILE", "VAR_NAME", "LAT_MIN",
         "LAT_MAX", "LON_MIN", "LON_MAX", "TIME_MIN", "TIME_MAX", "JSON_FILE"}

DefaultInput == "era_interim_monthly_197901_201512_upscaled_annual.nc"

\* the defaults of the command-line options
Defaults ==
    [k \in Keys |->
       CASE k = "INPUT_FILE" -> DefaultInput
         [] k = "OUTPUT_FILE" -> "out.nc"
         [] k = "PLOT_FILE" -> "plot.png"
         [] k = "VAR_NAME" -> "t2m"
         [] k = "LAT_MIN" -> 5
         [] k = "LAT_MAX" -> 50
         [] k = "LON_MIN" -> 10
         [] k = "LON_MAX" -> 100
         [] k = "TIME_MIN" -> 0
         [] k = "TIME_MAX" -> 10
         [] k = "JSON_FILE" -> None]

\* parser.parse_args(): an option passed explicitly replaces its default
get_args(args) == [k \in Keys |-> IF k \in DOMAIN args THEN args[k] ELSE Defaults[k]]

\* a dictionary that ignores the keys already set
Update_keepOld(d, u) ==
    [k \in (DOMAIN d) \cup (DOMAIN u) |-> IF k \in DOMAIN d THEN d[k] ELSE u[k]]

\* dict.update(u)
Update(d, u) ==
    [k \in (DOMAIN d) \cup (DOMAIN u) |-> IF k \in DOMAIN u THEN u[k] ELSE d[k]]

(***************************************************************************)
(* The files on disk.                                                      *)
(***************************************************************************)
\* os.path.exists(path)
FileExists(path) == path \in {DefaultInput, "notes.txt", "cfg.json", "bad.json"}

\* json.load(f): the dictionary of a well-formed file, an exception otherwise
JsonLoad(path) ==
    IF path = "cfg.json" THEN [err |-> "", val |-> json_doc]
    ELSE [err |-> "JSONDecodeError", val |-> <<>>]

\* nc.Dataset(path, 'r') raises for a file that is not NetCDF
IsNetcdf(path) == path = DefaultInput

\* the variables of the input file: one 3-D field and one 2-D mask
NcArray(shp) ==
    [shape |-> shp,
     buf |-> [k \in 1..(IF Len(shp) = 3 THEN shp[1] * shp[2] * shp[3]
                        ELSE shp[1] * shp[2]) |-> Randn(k)]]

FileVariables == [t2m |-> NcArray(shape), mask |-> NcArray(<<shape[2], shape[3]>>)]

VariableNames == {"t2m", "mask"}

Variable(name) == IF name = "t2m" THEN FileVariables.t2m ELSE FileVariables.mask

\* a file can be created unless its directory is missing
CanWrite(path) == path \notin {"nodir/plot.png", "nodir/out.nc"}

\* data[t][y][x] of a 3-D array
Elem(d, t, y, x) == d.buf[(t * d.shape[2] + y) * d.shape[3] + x + 1]

Box(c) ==
    [time_min |-> c["TIME_MIN"], time_max |-> c["TIME_MAX"],
     lat_min |-> c["LAT_MIN"], lat_max |-> c["LAT_MAX"],
     lon_min |-> c["LON_MIN"], lon_max |-> c["LON_MAX"]]

(***************************************************************************)
(* example.py: calculate_spatial_mean and calculate_spatial_variance.      *)
(* Each returns [err, val]: the exception raised ("" for none) and the     *)
(* list built so far.                                                      *)
(***************************************************************************)
\* an upper bound that is included
Outside_inclusive(i, lo, hi) == (i < lo) \/ (i > hi)

\* "if ((i < lo) | (i >= hi)): continue"
Outside(i, lo, hi) == (i < lo) \/ (i >= hi)

\* lines 25-30; acc = <<pixel_count, total_data>>
RECURSIVE MeanXLoop(_, _, _, _, _, _)
MeanXLoop(d, b, t, y, x, acc) ==
    IF x >= d.shape[3] THEN acc
    ELSE IF Outside(x, b.lon_min, b.lon_max)
         THEN MeanXLoop(d, b, t, y, x + 1, acc)
         ELSE MeanXLoop(d, b, t, y, x + 1,
                        <<acc[1] + 1, acc[2] + Elem(d, t, y, x)>>)

\* lines 21-30
RECURSIVE MeanYLoop(_, _, _, _, _)
MeanYLoop(d, b, t, y, acc) ==
    IF y >= d.shape[2] THEN acc
    ELSE IF Outside(y, b.lat_min, b.lat_max)
         THEN MeanYLoop(d, b, t, y + 1, acc)
         ELSE MeanYLoop(d, b, t, y + 1, MeanXLoop(d, b, t, y, 0, acc))

\* lines 14-32; "total_data / pixel_count" of two ints raises when the count
\* is zero
RECURSIVE MeanTLoop(_, _, _, _)
MeanTLoop(d, b, t, out) ==
    IF t >= d.shape[1] THEN out
    ELSE IF Outside(t, b.time_min, b.time_max)
         THEN MeanTLoop(d, b, t + 1, out)
         ELSE LET acc == MeanYLoop(d, b, t, 0, <<0, 0>>)
              IN IF acc[1] = 0
                 THEN [out EXCEPT !.err = "ZeroDivisionError"]
                 ELSE MeanTLoop(d, b, t + 1,
                                [out EXCEPT !.val = Append(@, <<acc[2], acc[1]>>)])

calculate_spatial_mean(d, b) == MeanTLoop(d, b, 0, [err |-> "", val |-> <<>>])

\* a[i] of a sequence of length n: in range for -n <= i < n, counted from
\* the end when negative
InIndexRange(i, n) == (0 - n) <= i /\ i < n

PyIndex(i, n) == IF i < 0 THEN i + n + 1 ELSE i + 1

\* line 58: diff = data[t][y][x] - mean, for the mean m = <<total, count>>, as
\* the numerator over the denominator m[2]
Diff(v, m) == m[2] * v - m[1]

\* line 59: diff_squared_sum = diff_squared_sum + (diff)
Accumulated(sum, diff) == sum + diff

\* lines 53-59; acc = <<pixel_count, diff_squared_sum>>
RECURSIVE VarXLoop(_, _, _, _, _, _, _)
VarXLoop(d, b, t, y, x, m, acc) ==
    IF x >= d.shape[3] THEN acc
    ELSE IF Outside(x, b.lon_min, b.lon_max)
         THEN VarXLoop(d, b, t, y, x + 1, m, acc)
         ELSE VarXLoop(d, b, t, y, x + 1, m,
                       <<acc[1] + 1, Accumulated(acc[2], Diff(Elem(d, t, y, x), m))>>)

\* lines 49-59
RECURSIVE VarYLoop(_, _, _, _, _, _)
VarYLoop(d, b, t, y, m, acc) ==
    IF y >= d.shape[2] THEN acc
    ELSE IF Outside(y, b.lat_min, b.lat_max)
         THEN VarYLoop(d, b, t, y + 1, m, acc)
         ELSE VarYLoop(d, b, t, y + 1, m, VarXLoop(d, b, t, y, 0, m, acc))

\* lines 42-61.  The mean is read at index t - time_min inside the pixel
\* loop: an index past the end of the mean series raises IndexError at the
\* first selected pixel; with no pixel selected the quotient of line 61
\* raises.
RECURSIVE VarTLoop(_, _, _, _, _)
VarTLoop(d, b, mean, t, out) ==
    IF t >= d.shape[1] THEN out
    ELSE IF Outside(t, b.time_min, b.time_max)
         THEN VarTLoop(d, b, mean, t + 1, out)
         ELSE LET idx == t - b.time_min
                  selected == MeanYLoop(d, b, t, 0, <<0, 0>>)[1] > 0
              IN IF ~selected
                 THEN [out EXCEPT !.err = "ZeroDivisionError"]
                 ELSE IF ~InIndexRange(idx, Len(mean))
                 THEN [out EXCEPT !.err = "IndexError"]
                 ELSE LET m == mean[PyIndex(idx, Len(mean))]
                          acc == VarYLoop(d, b, t, 0, m, <<0, 0>>)
                      IN VarTLoop(d, b, mean, t + 1,
                                  [out EXCEPT !.val =
                                      Append(@, <<acc[2], m[2] * acc[1]>>)])

calculate_spatial_variance(d, b, mean) ==
    VarTLoop(d, b, mean, 0, [err |-> "", val |-> <<>>])

(***************************************************************************)
(* spatialstats.py: run_analysis.                                          *)
(***************************************************************************)
Min(a, b) == IF a < b THEN a ELSE b

Max(a, b) == IF a > b THEN a ELSE b

\* the bound of a slice of an axis of length n: a negative bound counts from
\* the end, and a bound beyond either end is clamped
SliceBound(i, n) == IF i < 0 THEN Max(i + n, 0) ELSE Min(i, n)

\* the indices selected by lo:hi on an axis of length n, in order
SliceIndices(lo, hi, n) ==
    [e \in 1..Max(SliceBound(hi, n) - SliceBound(lo, n), 0) |->
        SliceBound(lo, n) + e - 1]

\* the pixels of time step t of the subset, in row-major order
RECURSIVE RowPixels(_, _, _, _, _)
RowPixels(d, t, y, xs, e) ==
    IF e > Len(xs) THEN <<>>
    ELSE <<Elem(d, t, y, xs[e])>> \o RowPixels(d, t, y, xs, e + 1)

RECURSIVE StepPixels(_, _, _, _, _)
StepPixels(d, t, ys, xs, e) ==
    IF e > Len(ys) THEN <<>>
    ELSE RowPixels(d, t, ys[e], xs, 1) \o StepPixels(d, t, ys, xs, e + 1)

\* np.mean of a sequence of pixels: nan (with a warning) when it is empty
NpMean(px) == <<SumSeq(px), Len(px)>>

RECURSIVE SumSqDev(_, _, _)
SumSqDev(px, s, n) ==
    IF px = <<>> THEN 0
    ELSE (n * Head(px) - s) * (n * Head(px) - s) + SumSqDev(Tail(px), s, n)

\* np.var of a sequence of n pixels of sum s: the mean of the squared
\* deviations (x - s/n)^2, as the numerator over n^3
NpVar(px) == <<SumSqDev(px, SumSeq(px), Len(px)), Len(px) * Len(px) * Len(px)>>

\* lines 116-118: the subset, one sequence of pixels per retained time step
Subset(d, b) ==
    LET ts == SliceIndices(b.time_min, b.time_max, d.shape[1])
        ys == SliceIndices(b.lat_min, b.lat_max, d.shape[2])
        xs == SliceIndices(b.lon_min, b.lon_max, d.shape[3])
    IN [e \in 1..Len(ts) |-> StepPixels(d, ts[e], ys, xs, 1)]

\* lines 121-122: np.mean and np.var over axes (1, 2)
MeanOverSpace(sub) == [e \in 1..Len(sub) |-> NpMean(sub[e])]

VarOverSpace(sub) == [e \in 1..Len(sub) |-> NpVar(sub[e])]

(***************************************************************************)
(* The inputs: the grid of the input file, the command line, the JSON      *)
(* file, and (example.py) the configuration constants of main.             *)
(***************************************************************************)
TimeIdx == (0 - MaxNeg)..(MaxT + 1)

LatIdx == (0 - MaxNeg)..MaxY

LonIdx == {0 - MaxNeg, 0, MaxX}

Shapes == {<<t, MaxY, MaxX>> : t \in 1..MaxT}

\* an option left out, or given one of the values vs
Opt(k, vs) == {<<>>} \cup {k :> v : v \in vs}

ArgvChoices ==
    {a @@ b @@ c @@ d :
        a \in Opt("JSON_FILE", {<<"cfg.json">>, <<"bad.json">>, <<"none.json">>}),
        b \in {<<>>, ("LAT_MIN" :> 0) @@ ("LAT_MAX" :> MaxY)
                      @@ ("LON_MIN" :> 0) @@ ("LON_MAX" :> MaxX)},
        c \in Opt("PLOT_FILE", {"nodir/plot.png"}),
        d \in Opt("OUTPUT_FILE", {"nodir/out.nc", "stats.nc"})}

JsonChoices ==
    {a @@ b @@ c @@ d @@ e :
        a \in Opt("TIME_MIN", (0 - MaxNeg)..1),
        b \in Opt("TIME_MAX", 0..(MaxT + 1)),
        c \in Opt("LAT_MAX", {1}),
        d \in Opt("VAR_NAME", {"mask", "precip"}),
        e \in Opt("INPUT_FILE", {"nofile.nc", "notes.txt"})}

NcStart ==
    /\ NoArray
    /\ shape \in Shapes
    /\ analyzer = None /\ plot_file = None /\ out_file = None
    /\ stdout = <<>> /\ exit_code = None /\ steps = <<>>
    /\ OmpIdle /\ ThrIdle /\ MpiIdle

InitSpatialstats ==
    /\ prog = "spatialstats"
    /\ NcStart
    /\ argv \in ArgvChoices
    /\ json_doc \in IF "JSON_FILE" \in DOMAIN argv /\ argv["JSON_FILE"] = <<"cfg.json">>
                    THEN JsonChoices ELSE {<<>>}
    /\ config = <<>>
    /\ ncPc = "get_args"

\* example.py lines 110-119: the configuration variables of main
ExampleConfig(b) ==
    [k \in Keys \ {"JSON_FILE"} |->
       CASE k = "TIME_MIN" -> b[1] [] k = "TIME_MAX" -> b[2]
         [] k = "LAT_MIN" -> b[3] [] k = "LAT_MAX" -> b[4]
         [] k = "LON_MIN" -> b[5] [] k = "LON_MAX" -> b[6]
         [] k = "OUTPUT_FILE" -> b[7]
         [] OTHER -> Defaults[k]]

InitExample ==
    /\ prog = "example"
    /\ NcStart
    /\ argv = <<>> /\ json_doc = <<>>
    /\ config \in {ExampleConfig(b) :
                     b \in TimeIdx \X TimeIdx \X LatIdx \X LatIdx \X LonIdx \X LonIdx
                           \X {"out.nc", "stats.nc"}}
    /\ ncPc = "load"

InitNc == InitSpatialstats \/ InitExample

(***************************************************************************)
(* spatialstats.py: main                                                   *)
(***************************************************************************)
ncRest == <<commonVars, ompVars, thrVars, mpiVars, argv, json_doc, shape>>

\* main with save_netcdf called before visualize
After_saveFirst(step) ==
    CASE step = "load" -> "run_analysis"
      [] step = "run_analysis" -> "save_netcdf"
      [] step = "save_netcdf" -> "visualize"
      [] step = "visualize" -> "done"

\* lines 244-248: the statement main runs once a step has returned
After(step) ==
    CASE step = "load" -> "run_analysis"
      [] step = "run_analysis" -> "visualize"
      [] step = "visualize" -> "save_netcdf"
      [] step = "save_netcdf" -> "done"

\* line 227: config = vars(get_args())
NcGetArgs ==
    /\ prog = "spatialstats" /\ ncPc = "get_args"
    /\ config' = get_args(argv)
    /\ ncPc' = "json"
    /\ UNCHANGED <<ncRest, analyzer, plot_file, out_file, stdout, exit_code, steps>>

\* lines 230-240: the JSON config
NcJson ==
    /\ prog = "spatialstats" /\ ncPc = "json"
    /\ LET jf == config["JSON_FILE"]
       IN IF jf = None
          THEN /\ ncPc' = "load"
               /\ UNCHANGED <<config, stdout, exit_code>>
          ELSE IF ~FileExists(jf[1])
          THEN /\ stdout' = Append(stdout, "Warning: JSON file not found. Using defaults.")
               /\ ncPc' = "load"
               /\ UNCHANGED <<config, exit_code>>
          ELSE IF JsonLoad(jf[1]).err # ""
          THEN /\ stdout' = Append(stdout, "Error loading JSON config")
               /\ exit_code' = <<1>>
               /\ ncPc' = "exit"
               /\ UNCHANGED config
          ELSE /\ config' = Update(config, JsonLoad(jf[1]).val)
               /\ stdout' = Append(stdout, "Configuration loaded")
               /\ ncPc' = "load"
               /\ UNCHANGED exit_code
    /\ UNCHANGED <<ncRest, analyzer, plot_file, out_file, steps>>

\* line 244: SpatialAnalyzer(config), that is __init__ and _load_dataset
NcLoad ==
    /\ prog = "spatialstats" /\ ncPc = "load"
    /\ steps' = Append(steps, "load")
    /\ LET path == config["INPUT_FILE"]
           name == config["VAR_NAME"]
           err == IF ~FileExists(path) THEN "Error: The file does not exist."
                  ELSE IF ~IsNetcdf(path)
                  THEN "An unexpected error occurred while loading"
                  ELSE IF name \notin VariableNames
                  THEN "Error: Variable not found."
                  ELSE ""
       IN IF err # ""
          THEN /\ stdout' = Append(stdout, err)
               /\ exit_code' = <<1>>
               /\ ncPc' = "exit"
               /\ UNCHANGED analyzer
          ELSE /\ analyzer' = [data |-> Variable(name), means |-> None,
                               variances |-> None]
               /\ ncPc' = After("load")
               /\ UNCHANGED <<stdout, exit_code>>
    /\ UNCHANGED <<ncRest, config, plot_file, out_file>>

\* line 245: run_analysis; indexing an array of fewer than three axes with
\* three slices raises IndexError, which main reports before exiting
NcRunAnalysis ==
    /\ prog = "spatialstats" /\ ncPc = "run_analysis"
    /\ steps' = Append(steps, "compute")
    /\ IF Len(analyzer.data.shape) # 3
       THEN /\ stdout' = stdout \o <<"Computing the statistics", "Analysis failed">>
            /\ exit_code' = <<1>>
            /\ ncPc' = "exit"
            /\ UNCHANGED analyzer
       ELSE /\ LET sub == Subset(analyzer.data, Box(config))
               IN analyzer' = [analyzer EXCEPT !.means = <<MeanOverSpace(sub)>>,
                                               !.variances = <<VarOverSpace(sub)>>]
            /\ stdout' = Append(stdout, "Computing the statistics")
            /\ ncPc' = After("run_analysis")
            /\ UNCHANGED exit_code
    /\ UNCHANGED <<ncRest, config, plot_file, out_file>>

\* plt.savefig(path) of the two series
Plot(path, mean, variance) == [path |-> path, mean |-> mean, variance |-> variance]

\* line 246: visualize; an exception is reported and swallowed
NcVisualize ==
    /\ prog = "spatialstats" /\ ncPc = "visualize"
    /\ steps' = Append(steps, "visualize")
    /\ IF analyzer.means = None
       THEN /\ stdout' = Append(stdout, "Error: No analysis results to visualize.")
            /\ UNCHANGED plot_file
       ELSE IF CanWrite(config["PLOT_FILE"])
       THEN /\ plot_file' = Plot(config["PLOT_FILE"], analyzer.means[1],
                                 analyzer.variances[1])
            /\ stdout' = stdout \o <<"Visualizing the data", "Plot saved">>
       ELSE /\ stdout' = stdout \o <<"Visualizing the data",
                                     "Error during visualization">>
            /\ UNCHANGED plot_file
    /\ ncPc' = After("visualize")
    /\ UNCHANGED <<ncRest, config, analyzer, out_file, exit_code>>

\* a NetCDF file with the dimension t and the two variables indexed by it
Dataset(path, mean, variance) ==
    [path |-> path, t |-> Len(mean),
     temporal_spatial_mean |-> mean, temporal_spatial_variance |-> variance]

\* lines 247-248: save_netcdf, whose exceptions are reported and swallowed,
\* then the final message and the normal end of main
NcSaveNetcdf ==
    /\ prog = "spatialstats" /\ ncPc = "save_netcdf"
    /\ steps' = Append(steps, "save")
    /\ IF CanWrite(config["OUTPUT_FILE"]) /\ analyzer.means # None
       THEN /\ out_file' = Dataset(config["OUTPUT_FILE"], analyzer.means[1],
                                   analyzer.variances[1])
            /\ stdout' = stdout \o <<"Saving statistics", "Processing complete.">>
       ELSE /\ stdout' = stdout \o <<"Saving statistics", "Error while saving NetCDF",
                                     "Processing complete.">>
            /\ UNCHANGED out_file
    /\ exit_code' = <<0>>
    /\ ncPc' = After("save_netcdf")
    /\ UNCHANGED <<ncRest, config, analyzer, plot_file>>

(***************************************************************************)
(* example.py: main.  An exception is not caught: the interpreter prints   *)
(* the traceback and exits with status 1.                                  *)
(***************************************************************************)
\* lines 121-123: load_dataset
ExLoad ==
    /\ prog = "example" /\ ncPc = "load"
    /\ steps' = Append(steps, "load")
    /\ analyzer' = [data |-> Variable(config["VAR_NAME"]), means |-> None,
                    variances |-> None]
    /\ stdout' = Append(stdout, "Loading the dataset")
    /\ ncPc' = "mean"
    /\ UNCHANGED <<ncRest, config, plot_file, out_file, exit_code>>

\* lines 125-128: calculate_spatial_mean
ExMean ==
    /\ prog = "example" /\ ncPc = "mean"
    /\ steps' = Append(steps, "compute")
    /\ LET r == calculate_spatial_mean(analyzer.data, Box(config))
       IN IF r.err # ""
          THEN /\ stdout' = stdout \o <<"Computing the statistics", r.err>>
               /\ exit_code' = <<1>>
               /\ ncPc' = "crashed"
               /\ UNCHANGED analyzer
          ELSE /\ analyzer' = [analyzer EXCEPT !.means = <<r.val>>]
               /\ stdout' = Append(stdout, "Computing the statistics")
               /\ ncPc' = "variance"
               /\ UNCHANGED exit_code
    /\ UNCHANGED <<ncRest, config, plot_file, out_file>>

\* lines 129-131: calculate_spatial_variance
ExVariance ==
    /\ prog = "example" /\ ncPc = "variance"
    /\ LET r == calculate_spatial_variance(analyzer.data, Box(config),
                                           analyzer.means[1])
       IN IF r.err # ""
          THEN /\ stdout' = Append(stdout, r.err)
               /\ exit_code' = <<1>>
               /\ ncPc' = "crashed"
               /\ UNCHANGED analyzer
          ELSE /\ analyzer' = [analyzer EXCEPT !.variances = <<r.val>>]
               /\ ncPc' = "visualize"
               /\ UNCHANGED <<stdout, exit_code>>
    /\ UNCHANGED <<ncRest, config, plot_file, out_file, steps>>

\* lines 133-135: visualize_data
ExVisualize ==
    /\ prog = "example" /\ ncPc = "visualize"
    /\ steps' = Append(steps, "visualize")
    /\ plot_file' = Plot(config["PLOT_FILE"], analyzer.means[1], analyzer.variances[1])
    /\ stdout' = Append(stdout, "Visualizing the data")
    /\ ncPc' = "save"
    /\ UNCHANGED <<ncRest, config, analyzer, out_file, exit_code>>

\* example.py lines 85-99: the file name is the literal 'out.nc'
output_data_to_netcdf(output_file, mean, variance) == Dataset("out.nc", mean, variance)

\* lines 137-141: output_data_to_netcdf and the end of main
ExSave ==
    /\ prog = "example" /\ ncPc = "save"
    /\ steps' = Append(steps, "save")
    /\ out_file' = output_data_to_netcdf(config["OUTPUT_FILE"], analyzer.means[1],
                                         analyzer.variances[1])
    /\ stdout' = Append(stdout, "Saving the computed statistics to netcdf")
    /\ exit_code' = <<0>>
    /\ ncPc' = "done"
    /\ UNCHANGED <<ncRest, config, analyzer, plot_file>>

NextNc ==
    \/ NcGetArgs
    \/ NcJson
    \/ NcLoad
    \/ NcRunAnalysis
    \/ NcVisualize
    \/ NcSaveNetcdf
    \/ ExLoad
    \/ ExMean
    \/ ExVariance
    \/ ExVisualize
    \/ ExSave

SpecNc == InitNc /\ [][NextNc]_vars

(***************************************************************************)
(* Properties of the NetCDF utility                                        *)
(***************************************************************************)
Ended == ncPc \in {"done", "exit", "crashed"}

Ran(step) == \E e \in DOMAIN steps : steps[e] = step

Printed(msg) == \E e \in DOMAIN stdout : stdout[e] = msg

JsonUnreadable ==
    /\ config["JSON_FILE"] # None
    /\ FileExists(config["JSON_FILE"][1])
    /\ JsonLoad(config["JSON_FILE"][1]).err # ""

InputMissing == Ran("load") /\ ~FileExists(config["INPUT_FILE"])

LoadRaises ==
    Ran("load") /\ FileExists(config["INPUT_FILE"]) /\ ~IsNetcdf(config["INPUT_FILE"])

VariableMissing ==
    /\ Ran("load") /\ IsNetcdf(config["INPUT_FILE"])
    /\ config["VAR_NAME"] \notin VariableNames

ComputeRaises == Ran("compute") /\ Len(analyzer.data.shape) # 3

SaveRaises == Ran("save") /\ ~CanWrite(config["OUTPUT_FILE"])

\* C13: spatialstats.py ends with exit code 1, and without having printed
\* 'Processing complete.', whenever the input file is missing, the variable
\* is missing, the JSON config cannot be read, or the load, the compute or
\* the save step raises an exception.
C13_FailuresExitOne ==
    (prog = "spatialstats" /\ Ended
       /\ (InputMissing \/ VariableMissing \/ JsonUnreadable \/ LoadRaises
             \/ ComputeRaises \/ SaveRaises))
      => (exit_code = <<1>> /\ ~Printed("Processing complete."))

Computed ==
    /\ prog \in NcProgs
    /\ ncPc \in {"visualize", "save", "save_netcdf", "done"}

\* both bounds of every axis lie within the array
BoxInRange(d, b) ==
    /\ 0 <= b.time_min /\ b.time_min <= b.time_max /\ b.time_max <= d.shape[1]
    /\ 0 <= b.lat_min /\ b.lat_min <= b.lat_max /\ b.lat_max <= d.shape[2]
    /\ 0 <= b.lon_min /\ b.lon_min <= b.lon_max /\ b.lon_max <= d.shape[3]

\* the pixels <<y, x>> of the lat/lon sub-box
SubBox(d, b) ==
    {p \in (0..(d.shape[2] - 1)) \X (0..(d.shape[3] - 1)) :
        /\ b.lat_min <= p[1] /\ p[1] < b.lat_max
        /\ b.lon_min <= p[2] /\ p[2] < b.lon_max}

RECURSIVE SumOver(_, _)
SumOver(f, S) ==
    IF S = {} THEN 0
    ELSE LET p == CHOOSE q \in S : TRUE IN f[p] + SumOver(f, S \ {p})

\* the spatial mean of time step t, as <<sum, count>>
SpatialMean(d, b, t) ==
    <<SumOver([p \in SubBox(d, b) |-> Elem(d, t, p[1], p[2])], SubBox(d, b)),
      Cardinality(SubBox(d, b))>>

\* the mean of the squared deviations from that mean, as
\* <<sum of (n*x - sum)^2, n^3>>
SpatialVariance(d, b, t) ==
    LET n == Cardinality(SubBox(d, b))
        s == SpatialMean(d, b, t)[1]
    IN <<SumOver([p \in SubBox(d, b) |->
                     (n * Elem(d, t, p[1], p[2]) - s) * (n * Elem(d, t, p[1], p[2]) - s)],
                 SubBox(d, b)),
         n * n * n>>

\* equality of two quotients
SameQuotient(a, b) == a[1] * b[2] = b[1] * a[2] /\ (a[2] = 0) = (b[2] = 0)

\* C14: for an in-range bounding box the compute step yields, for every
\* retained time step, the spatial mean of the sub-box and its variance, the
\* mean of the squared deviations of the selected pixels from that time
\* step's mean; in example.py and in spatialstats.py alike.
C14_VarianceIsMeanSquaredDeviation ==
    (Computed /\ BoxInRange(analyzer.data, Box(config))) =>
       LET d == analyzer.data
           b == Box(config)
           ms == analyzer.means[1]
           vs == analyzer.variances[1]
       IN /\ Len(ms) = b.time_max - b.time_min
          /\ Len(vs) = b.time_max - b.time_min
          /\ \A e \in DOMAIN ms :
               SameQuotient(ms[e], SpatialMean(d, b, b.time_min + e - 1))
          /\ \A e \in DOMAIN vs :
               SameQuotient(vs[e], SpatialVariance(d, b, b.time_min + e - 1))

\* the time indices t of the input with TIME_MIN <= t < TIME_MAX
RetainedSteps ==
    {t \in 0..(analyzer.data.shape[1] - 1) :
        config["TIME_MIN"] <= t /\ t < config["TIME_MAX"]}

\* C15: the output file has one dimension t whose size is the number of
\* retained time steps, the time indices t of the input with
\* TIME_MIN <= t < TIME_MAX, and the mean series and the variance series
\* written to it both have exactly that length.
C15_DimensionIsRetainedSteps ==
    (prog \in NcProgs /\ out_file # None) =>
       /\ out_file.t = Cardinality(RetainedSteps)
       /\ Len(out_file.temporal_spatial_mean) = Cardinality(RetainedSteps)
       /\ Len(out_file.temporal_spatial_variance) = Cardinality(RetainedSteps)

\* the JSON step of spatialstats.main is over and was given a file that exists
JsonApplied ==
    /\ prog = "spatialstats"
    /\ ncPc \notin {"get_args", "json"}
    /\ "JSON_FILE" \in DOMAIN argv
    /\ FileExists(argv["JSON_FILE"][1])

\* C16: when a JSON config file is given and present, every key it contains
\* has the file's value in the configuration, whether the command line left
\* that option at its default or passed it explicitly, and every key it does
\* not contain keeps its command-line value.
C16_JsonOverridesCommandLine ==
    JsonApplied =>
       \A k \in Keys :
          config[k] = IF k \in DOMAIN json_doc THEN json_doc[k]
                      ELSE IF k \in DOMAIN argv THEN argv[k]
                      ELSE Defaults[k]

\* C16 witness: the file has overridden an explicitly passed option
\* (LAT_MAX) and a default (TIME_MAX) with different values, while an
\* explicitly passed option it does not mention (LAT_MIN) has kept its value
C16_JsonOverrodeBoth ==
    /\ JsonApplied /\ ncPc = "load"
    /\ {"LAT_MAX", "TIME_MAX"} \subseteq DOMAIN json_doc
    /\ {"LAT_MAX", "LAT_MIN"} \subseteq DOMAIN argv
    /\ "LAT_MIN" \notin DOMAIN json_doc
    /\ json_doc["LAT_MAX"] # argv["LAT_MAX"]
    /\ json_doc["TIME_MAX"] # Defaults["TIME_MAX"]
    /\ config["LAT_MAX"] = json_doc["LAT_MAX"]

(***************************************************************************)
(* Termination of the collective mean                                      *)
(***************************************************************************)
\* the statements of calculate_mean_collective and run_hybrid_mean, in order
CollectiveOrder ==
    <<"Scatter", "local", "reduce_val", "reduce_count", "report", "done">>

Position(p) == CHOOSE e \in DOMAIN CollectiveOrder : CollectiveOrder[e] = p

\* a step leaves every rank where it is or moves it to its next statement
InOrder ==
    prog \in MeanProgs =>
       \A r \in Ranks :
          \/ proc'[r].pc = proc[r].pc
          \/ Position(proc'[r].pc) = Position(proc[r].pc) + 1

\* C17: in calculate_mean_collective and run_hybrid_mean every rank, root or
\* not, goes through Scatter, the reduce of the value and the reduce of the
\* count in that order, and for every process count that divides the row
\* count no rank stays blocked in a collective: every rank ends.
C17_SameOrderAndTermination ==
    /\ [][InOrder]_vars
    /\ (prog \in MeanProgs) ~> (\A r \in Ranks : proc[r].pc = "done")

\* C17 witness: three ranks have all ended and no message is left in flight
C17_AllRanksEnded ==
    /\ prog \in MeanProgs /\ comm_size >= 3 /\ rows % comm_size = 0
    /\ \A r \in Ranks : proc[r].pc = "done" /\ down[r] = <<>> /\ up[r] = <<>>

FourSteps == <<"load", "compute", "visualize", "save">>

\* C18: the steps run in the order load, compute, visualize, save, each
\* after the one before it; visualize and save run only once the mean and
\* the variance have been computed, and what they write is those results;
\* a run that load or compute ended with a failure has written neither a
\* plot nor an output file.
C18_StepsInOrder ==
    prog \in NcProgs =>
       /\ Len(steps) <= Len(FourSteps)
       /\ \A e \in DOMAIN steps : steps[e] = FourSteps[e]
       /\ (Ran("visualize") \/ Ran("save")) =>
             (analyzer.means # None /\ analyzer.variances # None)
       /\ plot_file # None =>
             /\ Ran("visualize")
             /\ plot_file.mean = analyzer.means[1]
             /\ plot_file.variance = analyzer.variances[1]
       /\ out_file # None =>
             /\ Ran("save")
             /\ out_file.temporal_spatial_mean = analyzer.means[1]
             /\ out_file.temporal_spatial_variance = analyzer.variances[1]
       /\ (Ended /\ ~Ran("visualize")) =>
             (exit_code = <<1>> /\ plot_file = None /\ out_file = None)
       /\ exit_code = <<1>> => (plot_file = None /\ out_file = None)

\* C18 witness: a run of spatialstats.py has gone through the four steps and
\* written a plot and an output file of at least one time step
C18_FourStepsDone ==
    /\ prog = "spatialstats" /\ ncPc = "done"
    /\ steps = FourSteps
    /\ plot_file # None /\ out_file # None
    /\ out_file.t >= 1

MeanCalled == prog = "example" /\ Ran("compute")

\* calculate_spatial_mean has raised ZeroDivisionError
MeanDividedByZero ==
    /\ ncPc = "crashed" /\ analyzer.means = None
    /\ stdout[Len(stdout)] = "ZeroDivisionError"

\* the bounding box selects no pixel of the array
ZeroPixels ==
    RetainedSteps = {} \/ SubBox(analyzer.data, Box(config)) = {}

C21_SavesToGivenPath ==
    (prog \in NcProgs /\ out_file # None) =>
       /\ out_file.path = config["OUTPUT_FILE"]
       /\ out_file.temporal_spatial_mean = analyzer.means[1]
       /\ out_file.temporal_spatial_variance = analyzer.variances[1]

\* calculate_spatial_mean has returned its series
MeanReturned == prog = "example" /\ Ran("compute") /\ analyzer.means # None

\* C22: in calculate_spatial_variance, for every retained time step t, the
\* index t - time_min lies within the mean series and the element read there
\* is the mean calculate_spatial_mean computed for that same time step, for
\* every time_min and time_max, below 0 and beyond the last time step
\* included; the function therefore never fails on that index.
C22_MeanIndexIsOwnTimeStep ==
    MeanReturned =>
       /\ \A t \in RetainedSteps :
             /\ InIndexRange(t - config["TIME_MIN"], Len(analyzer.means[1]))
             /\ SameQuotient(
                   analyzer.means[1][PyIndex(t - config["TIME_MIN"],
                                             Len(analyzer.means[1]))],
                   SpatialMean(analyzer.data, Box(config), t))
       /\ ncPc = "crashed" => stdout[Len(stdout)] # "IndexError"

\* the elements (t, lat, lon) the loops of calculate_spatial_mean do not skip
LoopSelection(d, b) ==
    {p \in (0..(d.shape[1] - 1)) \X (0..(d.shape[2] - 1)) \X (0..(d.shape[3] - 1)) :
        /\ ~Outside(p[1], b.time_min, b.time_max)
        /\ ~Outside(p[2], b.lat_min, b.lat_max)
        /\ ~Outside(p[3], b.lon_min, b.lon_max)}

Elements(xs) == {xs[e] : e \in DOMAIN xs}

\* the elements of the subset sliced by run_analysis
SliceSelection(d, b) ==
    Elements(SliceIndices(b.time_min, b.time_max, d.shape[1]))
       \X Elements(SliceIndices(b.lat_min, b.lat_max, d.shape[2]))
       \X Elements(SliceIndices(b.lon_min, b.lon_max, d.shape[3]))

\* C23: for the same array and the same six bounding indices, negative ones
\* and ones beyond the array extent included, the loops of
\* calculate_spatial_mean and the slice of run_analysis select the same
\* elements, and the mean series calculate_spatial_mean returns is the mean
\* series run_analysis computes.
C23_LoopAndSliceAgree ==
    (prog = "example" /\ Ran("load")) =>
       /\ LoopSelection(analyzer.data, Box(config))
             = SliceSelection(analyzer.data, Box(config))
       /\ MeanReturned =>
             LET ms == MeanOverSpace(Subset(analyzer.data, Box(config)))
             IN /\ Len(analyzer.means[1]) = Len(ms)
                /\ \A e \in DOMAIN ms : SameQuotient(analyzer.means[1][e], ms[e])

(***************************************************************************)
(* Properties of the point-to-point exchange                               *)
(***************************************************************************)
P2pRun == prog = "p2p" /\ comm_size >= 2

P2pDone == \A r \in Ranks : proc[r].pc = "done"

\* the receives of rank 1 that took the message of the n-th Send
ReceiptsOf(n) == {k \in DOMAIN proc[1].log : proc[1].log[k][3] = n}

InFlight(n) == {e \in DOMAIN down[1] : down[1][e].n = n}

\* C24: in the point-to-point script run with at least two processes, rank 1
\* receives the tag-77 integer array before the tag-13 float array, each
\* receive delivers exactly the array rank 0 sent with that tag, every Send is
\* matched by exactly one Recv (none is left in flight when the ranks have
\* ended), the ranks other than 0 and 1 neither send nor receive, and no
\* state short of the end of all ranks is stuck.
C24_TwoMessagesInOrderNoDeadlock ==
    P2pRun =>
       /\ Len(proc[1].log) <= 2
       /\ \A k \in DOMAIN proc[1].log :
             /\ proc[1].log[k][1] = "Recv"
             /\ proc[1].log[k][2] = (IF k = 1 THEN 77 ELSE 13)
             /\ proc[1].log[k][4] =
                   [dtype |-> IF k = 1 THEN "i" ELSE "float64",
                    buf |-> [e \in 1..P2pLen |-> e - 1]]
       /\ \A n \in DOMAIN proc[0].log :
             /\ proc[0].log[n] = <<"Send", IF n = 1 THEN 77 ELSE 13>>
             /\ Cardinality(ReceiptsOf(n)) + Cardinality(InFlight(n)) = 1
             /\ P2pDone => Cardinality(ReceiptsOf(n)) = 1
       /\ \A k \in DOMAIN proc[1].log : proc[1].log[k][3] \in DOMAIN proc[0].log
       /\ P2pDone => Len(proc[0].log) = 2 /\ Len(proc[1].log) = 2
       /\ \A r \in Ranks :
             /\ up[r] = <<>>
             /\ r # 1 => down[r] = <<>>
             /\ r \notin {0, 1} => proc[r].log = <<>> /\ proc[r].data = None
       /\ P2pDone \/ ENABLED NextMpi

C24_BothReceivedAmongThree ==
    /\ prog = "p2p" /\ comm_size >= 3
    /\ P2pDone
    /\ Len(proc[1].log) = 2

(***************************************************************************)
(* Any one of the scripts.                                                 *)
(***************************************************************************)
Init == InitOmp \/ InitThreads \/ InitMpi \/ InitNc

Next == NextOmp \/ NextThreads \/ NextMpi \/ NextNc

Spec == Init /\ [][Next]_vars

=============================================================================
